---------------------------- MODULE Spec2Model ----------------------------
(***************************************************************************)
(* Model of the cargusAPI client class of src/script.js.                   *)
(*                                                                         *)
(* The client holds two fields, token and awb.  Each of its five async     *)
(* methods runs in two steps: the part before the await (the "call": the   *)
(* token check and the HTTP request being sent) and the continuation       *)
(* after the await (the "resp": the response or the rejection is handled). *)
(* Between the two steps any other method may run, so several calls can    *)
(* be in flight at once.                                                   *)
(*                                                                         *)
(* The class defines getLocalities twice (lines 64 and 185); in a          *)
(* JavaScript class body the later definition replaces the earlier one,    *)
(* so the method modelled is the one of lines 185-215.                     *)
(*                                                                         *)
(* The axios instance is created with a baseURL and a timeout only (lines  *)
(* 8-11), so it keeps the default validateStatus: the promise resolves     *)
(* for a status in 200..299 and rejects, with error.response set, for any  *)
(* other status; it rejects without error.response when no response        *)
(* arrived (network error, timeout).                                       *)
(***************************************************************************)
EXTENDS Integers, Sequences, FiniteSets, TLC

VARIABLES token, awb, inflight, files, last

vars == <<token, awb, inflight, files, last>>

-----------------------------------------------------------------------------
(* Bounds of the model *)

\* the largest number of calls in flight at the same time
MaxInFlight == 2

\* the longest label document, in bytes
MaxBytes == 3

-----------------------------------------------------------------------------
(* Program constants *)

\* the status the handlers compare with (response.status === 200)
StatusOK == 200

-----------------------------------------------------------------------------
(* JavaScript values.  A text string carries its text in val; the base64   *)
(* text of a label document carries its characters in chars, as a sequence *)
(* of sextet codes 0..63 with 64 for the padding character '='.            *)

JS(k, v) == [kind |-> k, val |-> v, chars |-> <<>>]

Null == JS("null", "")

Undefined == JS("undefined", "")

True == JS("boolean", "true")

False == JS("boolean", "false")

Str(s) == JS("string", s)

\* an object body such as {id: "AWB1"}; val holds its id field
Obj(id) == JS("object", id)

B64(cs) == [kind |-> "string", val |-> "", chars |-> cs]

\* !v of JavaScript
Falsy(v) ==
    \/ v.kind \in {"null", "undefined"}
    \/ v.kind = "string" /\ v.val = "" /\ v.chars = <<>>
    \/ v = False

\* `${v}` of JavaScript
ToStr(v) ==
    CASE v.kind = "string" -> v.val
      [] v.kind = "object" -> "[object Object]"
      [] OTHER -> v.kind

-----------------------------------------------------------------------------
(* base64 *)

Pad == 64

\* two bytes that are bitwise complements: 00100101 and 11011010
ByteVals == {37, 218}

RECURSIVE SeqsUpTo(_, _)
SeqsUpTo(S, n) ==
    IF n = 0 THEN {<<>>}
    ELSE LET shorter == SeqsUpTo(S, n - 1)
         IN  shorter \cup {Append(s, x) : s \in {t \in shorter : Len(t) = n - 1}, x \in S}

ByteSeqs == SeqsUpTo(ByteVals, MaxBytes)

\* the encoder of the remote service: three bytes to four characters, padded
RECURSIVE Base64Encode(_)
Base64Encode(b) ==
    IF Len(b) = 0 THEN <<>>
    ELSE IF Len(b) = 1 THEN
        <<b[1] \div 4, (b[1] % 4) * 16, Pad, Pad>>
    ELSE IF Len(b) = 2 THEN
        <<b[1] \div 4, (b[1] % 4) * 16 + b[2] \div 16, (b[2] % 16) * 4, Pad>>
    ELSE
        <<b[1] \div 4, (b[1] % 4) * 16 + b[2] \div 16,
          (b[2] % 16) * 4 + b[3] \div 64, b[3] % 64>>
        \o Base64Encode(SubSeq(b, 4, Len(b)))

\* the characters before the first padding character
RECURSIVE UpToPad(_)
UpToPad(cs) ==
    IF cs = <<>> \/ Head(cs) = Pad THEN <<>>
    ELSE <<Head(cs)>> \o UpToPad(Tail(cs))

RECURSIVE DecodeSextets(_)
DecodeSextets(s) ==
    IF Len(s) < 2 THEN <<>>
    ELSE IF Len(s) = 2 THEN
        <<s[1] * 4 + s[2] \div 16>>
    ELSE IF Len(s) = 3 THEN
        <<s[1] * 4 + s[2] \div 16, (s[2] % 16) * 16 + s[3] \div 4>>
    ELSE
        <<s[1] * 4 + s[2] \div 16, (s[2] % 16) * 16 + s[3] \div 4,
          (s[3] % 4) * 64 + s[4]>>
        \o DecodeSextets(SubSeq(s, 5, Len(s)))

\* faulty variant of Base64Decode: the padding is decoded like a character
Base64DecodePadding(cs) == DecodeSextets(cs)

\* Buffer.from(text, "base64"): decoding stops at the padding; a trailing
\* group of 2 or 3 characters gives 1 or 2 bytes, a single one gives none
Base64Decode(cs) == DecodeSextets(UpToPad(cs))

-----------------------------------------------------------------------------
(* The remote service and the HTTP layer.  An outcome is what the remote   *)
(* does with one request: a response with a status and a body, or no       *)
(* response at all (status 0: network error or timeout).                   *)

NoResponse == [status |-> 0, data |-> Undefined]

\* the outcomes every endpoint can produce besides its own successes
FailureOutcomes ==
    {[status |-> 201, data |-> Str("other")],
     [status |-> 500, data |-> Str("")],
     [status |-> 500, data |-> Str("err")],
     NoResponse}

LoginOutcomes ==
    {[status |-> StatusOK, data |-> Str(t)] : t \in {"tok1", "tok2", ""}}
        \cup FailureOutcomes

CountiesOutcomes ==
    {[status |-> StatusOK, data |-> Obj("counties")]} \cup FailureOutcomes

LocalitiesOutcomes ==
    {[status |-> StatusOK, data |-> Obj("localities")]} \cup FailureOutcomes

AwbOutcomes ==
    {[status |-> StatusOK, data |-> d] : d \in {Str("AWB1"), Str("AWB2"), Obj("AWB1")}}
        \cup FailureOutcomes

\* label bodies: the base64 text of every document of bs, the same text
\* without its padding, and a body that is not a text
LabelOutcomes(bs) ==
    {[status |-> StatusOK, data |-> B64(Base64Encode(b))] : b \in bs}
        \cup {[status |-> StatusOK, data |-> B64(UpToPad(Base64Encode(b)))] : b \in bs}
        \cup {[status |-> StatusOK, data |-> Obj("fault")]}
        \cup FailureOutcomes

\* what writeFileSync can do: write the file, or throw (the file cannot be
\* opened for writing; what is on disk stays)
FsOutcomes == {"ok", "throws"}

\* axios, default validateStatus: the promise resolves for 2xx
Resolves(o) == o.status >= 200 /\ o.status < 300

\* error.response is set when a response with a rejected status arrived
HasErrorResponse(o) == ~Resolves(o) /\ o.status # 0

-----------------------------------------------------------------------------
(* The continuations of the five methods: what each does with the outcome  *)
(* of its request.  diags counts the console.log and console.error calls.  *)

\* faulty variant of TokenMissing: the check is left out, as in printAWB
TokenNeverMissing(tok) == FALSE

\* if (!this.token) of getCounties, getLocalities and createAWB
TokenMissing(tok) == Falsy(tok)

\* faulty variant of loginUser: a failed login clears the token
loginUserClearing(tok, o) ==
    IF Resolves(o) /\ o.status = StatusOK
    THEN [token |-> o.data, ret |-> True, diags |-> 1]
    ELSE [token |-> Null, ret |-> False, diags |-> 1]

\* faulty variant of loginUser: the body of every resolved response is
\* stored, whatever its status
loginUserAnyStatus(tok, o) ==
    IF Resolves(o)
    THEN [token |-> o.data, ret |-> IF o.status = StatusOK THEN True ELSE False,
          diags |-> 1]
    ELSE [token |-> tok, ret |-> False, diags |-> 1]

loginUser(tok, o) ==
    IF Resolves(o)
    THEN IF o.status = StatusOK
         THEN [token |-> o.data, ret |-> True, diags |-> 1]
         ELSE [token |-> tok, ret |-> False, diags |-> 1]
    ELSE [token |-> tok, ret |-> False, diags |-> 1]

\* variant of createAWB that stores the id field of an object body
createAWBStoresId(cur, o) ==
    IF Resolves(o)
    THEN IF o.status = StatusOK
         THEN [awb |-> IF o.data.kind = "object" THEN Str(o.data.val) ELSE o.data,
               ret |-> o.data, diags |-> 1]
         ELSE [awb |-> cur, ret |-> Null, diags |-> 1]
    ELSE [awb |-> cur, ret |-> Null,
          diags |-> IF HasErrorResponse(o) THEN 2 ELSE 1]

\* variant of createAWB that does not log error.response.data
createAWBLogsOnce(cur, o) ==
    IF Resolves(o)
    THEN IF o.status = StatusOK
         THEN [awb |-> o.data, ret |-> o.data, diags |-> 1]
         ELSE [awb |-> cur, ret |-> Null, diags |-> 1]
    ELSE [awb |-> cur, ret |-> Null, diags |-> 1]

createAWB(cur, o) ==
    IF Resolves(o)
    THEN IF o.status = StatusOK
         THEN [awb |-> o.data, ret |-> o.data, diags |-> 1]
         ELSE [awb |-> cur, ret |-> Null, diags |-> 1]
    ELSE [awb |-> cur, ret |-> Null,
          diags |-> IF HasErrorResponse(o) THEN 2 ELSE 1]

getCounties(o) ==
    IF Resolves(o)
    THEN [ret |-> o.data, diags |-> 0]
    ELSE [ret |-> Undefined, diags |-> 1]

getLocalities(o) ==
    IF Resolves(o)
    THEN IF o.status = StatusOK
         THEN [ret |-> o.data, diags |-> 1]
         ELSE [ret |-> Undefined, diags |-> 0]
    ELSE [ret |-> Undefined, diags |-> 1]

\* `${this.awb}.pdf`
FileName(cur) == ToStr(cur) \o ".pdf"

\* Buffer.from(data, "base64") throws a TypeError unless data is a string
DecodeThrows(data) == data.kind # "string"

WriteFile(fls, name, bytes, fs) ==
    IF fs = "ok" THEN (name :> bytes) @@ fls ELSE fls

\* the request resolved with status 200 and a body that can be decoded
ReachesWrite(o) ==
    Resolves(o) /\ o.status = StatusOK /\ ~DecodeThrows(o.data)

printAWB(cur, fls, o, fs) ==
    IF Resolves(o)
    THEN IF o.status = StatusOK
         THEN IF DecodeThrows(o.data)
              THEN [files |-> fls, ret |-> Undefined, diags |-> 1, file |-> "", fs |-> ""]
              ELSE IF fs = "ok"
                   THEN [files |-> WriteFile(fls, FileName(cur), Base64Decode(o.data.chars), fs),
                         ret |-> Str(FileName(cur)), diags |-> 1,
                         file |-> FileName(cur), fs |-> fs]
                   ELSE [files |-> WriteFile(fls, FileName(cur), Base64Decode(o.data.chars), fs),
                         ret |-> Undefined, diags |-> 1, file |-> "", fs |-> fs]
         ELSE [files |-> fls, ret |-> Undefined, diags |-> 0, file |-> "", fs |-> ""]
    ELSE [files |-> fls, ret |-> Undefined, diags |-> 1, file |-> "", fs |-> ""]

-----------------------------------------------------------------------------
(* State.  inflight holds the calls whose request is sent and whose        *)
(* response has not been handled, oldest first.  last records the step     *)
(* just taken: the method, the phase, the outcome handled, the value the   *)
(* method returned, and the numbers of diagnostics and of HTTP requests    *)
(* the step produced; for a step that wrote a file, the file name and the  *)
(* barCodes of the request (bar); for a createAWB response that was        *)
(* stored, whether another createAWB call was answered while this one was  *)
(* in flight (passed); token0 and awb0 are the two fields as they were      *)
(* before the step.                                                        *)

Call(op, bar) == [op |-> op, bar |-> bar, passed |-> "no"]

Event(op, phase, o, ret, diags, net, bar, file, passed) ==
    [op |-> op, phase |-> phase, status |-> o.status, data |-> o.data,
     ret |-> ret, diags |-> diags, net |-> net, bar |-> bar, file |-> file,
     passed |-> passed, fs |-> "", token0 |-> token, awb0 |-> awb]

NoEvent == Event("none", "none", NoResponse, Undefined, 0, 0, "", "", "no")

NoFiles == [n \in {} |-> <<>>]

Init ==
    /\ token = Null
    /\ awb = Null
    /\ inflight = <<>>
    /\ files = NoFiles
    /\ last = NoEvent

\* the request of a call is sent: the call is in flight
Send(op, bar) ==
    /\ Len(inflight) < MaxInFlight
    /\ inflight' = Append(inflight, Call(op, bar))
    /\ last' = Event(op, "call", NoResponse, Undefined, 0, 1, "", "", "no")

\* the first lines of getCounties, getLocalities and createAWB
CheckedCall(op) ==
    IF TokenMissing(token)
    THEN /\ last' = Event(op, "call", NoResponse, Null, 1, 0, "", "", "no")
         /\ UNCHANGED inflight
    ELSE Send(op, "")

\* call i leaves inflight; the createAWB calls still in flight remember
\* that a createAWB call issued later, or earlier, was answered before them
Answered(i) ==
    [j \in 1..(Len(inflight) - 1) |->
        LET k == IF j < i THEN j ELSE j + 1
            c == inflight[k]
        IN  IF c.op = "createAWB" /\ inflight[i].op = "createAWB"
            THEN [c EXCEPT !.passed = IF k < i THEN "by later" ELSE "by earlier"]
            ELSE c]

loginUserCall ==
    /\ Send("loginUser", "")
    /\ UNCHANGED <<token, awb, files>>

loginUserResp ==
    \E i \in 1..Len(inflight) : \E o \in LoginOutcomes :
        LET c == inflight[i]
            r == loginUser(token, o)
        IN  /\ c.op = "loginUser"
            /\ token' = r.token
            /\ inflight' = Answered(i)
            /\ last' = Event(c.op, "resp", o, r.ret, r.diags, 0, "", "", "no")
            /\ UNCHANGED <<awb, files>>

getCountiesCall ==
    /\ CheckedCall("getCounties")
    /\ UNCHANGED <<token, awb, files>>

getCountiesResp ==
    \E i \in 1..Len(inflight) : \E o \in CountiesOutcomes :
        LET c == inflight[i]
            r == getCounties(o)
        IN  /\ c.op = "getCounties"
            /\ inflight' = Answered(i)
            /\ last' = Event(c.op, "resp", o, r.ret, r.diags, 0, "", "", "no")
            /\ UNCHANGED <<token, awb, files>>

getLocalitiesCall ==
    /\ CheckedCall("getLocalities")
    /\ UNCHANGED <<token, awb, files>>

getLocalitiesResp ==
    \E i \in 1..Len(inflight) : \E o \in LocalitiesOutcomes :
        LET c == inflight[i]
            r == getLocalities(o)
        IN  /\ c.op = "getLocalities"
            /\ inflight' = Answered(i)
            /\ last' = Event(c.op, "resp", o, r.ret, r.diags, 0, "", "", "no")
            /\ UNCHANGED <<token, awb, files>>

createAWBCall ==
    /\ CheckedCall("createAWB")
    /\ UNCHANGED <<token, awb, files>>

\* faulty variant of createAWBResp: the response of a call that a later
\* createAWB call has overtaken does not set awb
createAWBRespIssueOrder ==
    \E i \in 1..Len(inflight) : \E o \in AwbOutcomes :
        LET c == inflight[i]
            r == createAWB(awb, o)
        IN  /\ c.op = "createAWB"
            /\ awb' = IF c.passed = "by later" THEN awb ELSE r.awb
            /\ inflight' = Answered(i)
            /\ last' = Event(c.op, "resp", o, r.ret, r.diags, 0, "", "",
                             IF o.status = StatusOK THEN c.passed ELSE "no")
            /\ UNCHANGED <<token, files>>

createAWBResp ==
    \E i \in 1..Len(inflight) : \E o \in AwbOutcomes :
        LET c == inflight[i]
            r == createAWB(awb, o)
        IN  /\ c.op = "createAWB"
            /\ awb' = r.awb
            /\ inflight' = Answered(i)
            /\ last' = Event(c.op, "resp", o, r.ret, r.diags, 0, "", "",
                             IF o.status = StatusOK THEN c.passed ELSE "no")
            /\ UNCHANGED <<token, files>>

\* printAWB has no token check: the request is built from this.awb as it is
printAWBCall ==
    /\ Send("printAWB", ToStr(awb))
    /\ UNCHANGED <<token, awb, files>>

PrintHandled(outcomes) ==
    \E i \in 1..Len(inflight) : \E o \in outcomes :
      \E fs \in IF ReachesWrite(o) THEN FsOutcomes ELSE {""} :
        LET c == inflight[i]
            r == printAWB(awb, files, o, fs)
        IN  /\ c.op = "printAWB"
            /\ files' = r.files
            /\ inflight' = Answered(i)
            /\ last' = [Event(c.op, "resp", o, r.ret, r.diags, 0,
                              IF r.file # "" THEN c.bar ELSE "", r.file, "no")
                          EXCEPT !.fs = r.fs]

\* in the specification of the whole client the remote serves one document
FewLabelOutcomes == LabelOutcomes({<<37>>})

printAWBResp ==
    /\ PrintHandled(FewLabelOutcomes)
    /\ UNCHANGED <<token, awb>>

Next ==
    \/ loginUserCall
    \/ loginUserResp
    \/ getCountiesCall
    \/ getCountiesResp
    \/ getLocalitiesCall
    \/ getLocalitiesResp
    \/ createAWBCall
    \/ createAWBResp
    \/ printAWBCall
    \/ printAWBResp

Spec == Init /\ [][Next]_vars

-----------------------------------------------------------------------------
(* The label round trip alone: a client that has logged in and created a   *)
(* waybill, asked for label documents of every content up to MaxBytes.     *)

InitLabel ==
    /\ token \in {Str("tok1")}
    /\ awb \in {Str("AWB1"), Str("AWB2")}
    /\ inflight = <<>>
    /\ files = NoFiles
    /\ last = NoEvent

\* every document, and a text cut short after one character
AnyLabelOutcomes ==
    LabelOutcomes(ByteSeqs) \cup {[status |-> StatusOK, data |-> B64(<<9>>)]}

printAWBRespAny ==
    /\ PrintHandled(AnyLabelOutcomes)
    /\ UNCHANGED <<token, awb>>

NextLabel ==
    \/ printAWBCall
    \/ printAWBRespAny

SpecLabel == InitLabel /\ [][NextLabel]_vars

-----------------------------------------------------------------------------
(* Properties.  Each is a predicate of the state after a step: last tells  *)
(* which step it was, token0 and awb0 what the fields were before it.      *)

CheckedOps == {"getCounties", "getLocalities", "createAWB"}

IsCall(e, op) == e.op = op /\ e.phase = "call"

IsResp(e, op) == e.op = op /\ e.phase = "resp"

\* a successful login, or a successful createAWB, is the step just taken
LoginOk(e) == IsResp(e, "loginUser") /\ e.status = StatusOK

CreateOk(e) == IsResp(e, "createAWB") /\ e.status = StatusOK

\* the values a method returns when it has no result
NoResult == {Null, Undefined, False}

\* C1: while the token is absent, a call of getCounties, getLocalities or
\* createAWB returns null and sends no request, in whatever state the
\* earlier operations left the client.
C1_NoRequestWithoutToken ==
    (last.phase = "call" /\ last.op \in CheckedOps /\ Falsy(last.token0))
        => (last.ret = Null /\ last.net = 0 /\ Falsy(token))

\* a createAWB call cut short with the token absent, with a label file on
\* disk from an earlier printAWB
C1_Witness ==
    /\ IsCall(last, "createAWB")
    /\ Falsy(last.token0)
    /\ last.net = 0
    /\ files # NoFiles

\* C2: a login answered with status 200 returns true and leaves the token
\* equal to the response body, whatever the token was; a login answered
\* otherwise, or not at all, returns false and leaves the token as it was.
C2_LoginSetsOrKeepsToken ==
    IsResp(last, "loginUser")
        => IF last.status = StatusOK
           THEN last.ret = True /\ token = last.data
           ELSE last.ret = False /\ token = last.token0

\* a failed login with a token held from an earlier login
C2_Witness ==
    /\ IsResp(last, "loginUser")
    /\ last.status = 500
    /\ last.ret = False
    /\ last.token0 = Str("tok1")
    /\ token = Str("tok1")

\* the identifier found in a response body, as the claim reads it
IdOf(d) == IF d.kind = "object" THEN Str(d.val) ELSE d

C4_OneDiagnosticOn500 ==
    (last.phase = "resp" /\ last.status = 500)
        => /\ last.ret \in NoResult
           /\ token = last.token0
           /\ awb = last.awb0
           /\ last.diags = 1

\* C4, amended: a call of any of the five methods answered with status 500
\* returns no result and changes neither the token nor the stored waybill
\* identifier; loginUser, getCounties, getLocalities and printAWB emit
\* exactly one diagnostic, createAWB emits two (the error message and the
\* body of the error response).
C4_DiagnosticsOn500 ==
    (last.phase = "resp" /\ last.status = 500)
        => /\ last.ret \in NoResult
           /\ token = last.token0
           /\ awb = last.awb0
           /\ last.diags = IF last.op = "createAWB" THEN 2 ELSE 1

\* a createAWB call answered with status 500 and an empty body, with a
\* waybill identifier stored before: two diagnostics
C4_Witness ==
    /\ IsResp(last, "createAWB")
    /\ last.status = 500
    /\ last.data = Str("")
    /\ last.diags = 2
    /\ last.ret = Null
    /\ awb = Str("AWB1")

\* C5: with a token and a waybill identifier w held, a printAWB call
\* answered with status 200 and the base64 text of a byte sequence b writes
\* b, byte for byte, to the file "<w>.pdf" and returns that file name,
\* whatever the file held before.
C5_LabelRoundTrip ==
    \A b \in ByteSeqs :
        (/\ IsResp(last, "printAWB")
         /\ last.status = StatusOK
         /\ last.data = B64(Base64Encode(b))
         /\ last.fs = "ok")
            => /\ FileName(last.awb0) \in DOMAIN files
               /\ files[FileName(last.awb0)] = b
               /\ last.ret = Str(FileName(last.awb0))

\* a label of two bytes, whose base64 text ends in one padding character,
\* written to AWB1.pdf
C5_Witness ==
    /\ IsResp(last, "printAWB")
    /\ last.status = StatusOK
    /\ last.data = B64(Base64Encode(<<37, 218>>))
    /\ last.fs = "ok"
    /\ last.awb0 = Str("AWB1")
    /\ files = ("AWB1.pdf" :> <<37, 218>>)
    /\ last.ret = Str("AWB1.pdf")

\* the step completed a call without its result
Failed(e) ==
    \/ e.phase = "call" /\ e.net = 0
    \/ e.phase = "resp" /\ e.status # StatusOK
    \/ IsResp(e, "printAWB") /\ e.status = StatusOK
          /\ (DecodeThrows(e.data) \/ e.fs = "throws")

\* C6: every failure (token missing, no response, a status other than 200,
\* a body that cannot be decoded or a file that cannot be written) ends
\* with at least one diagnostic and with a no-result value returned.
C6_FailuresLoggedAndEmpty ==
    Failed(last) => (last.diags >= 1 /\ last.ret \in NoResult)

\* C7: when two createAWB calls were in flight together and both were
\* answered with status 200, each response stores its body as it is
\* handled, so the stored identifier after both is the body of the response
\* handled last, whichever call was issued first.
C7_LastResponseWins ==
    (CreateOk(last) /\ last.passed # "no") => awb = last.data

\* the call issued first is answered after the call issued second: its
\* response "AWB1" replaces the "AWB2" that the second call had stored
C7_Witness ==
    /\ CreateOk(last)
    /\ last.passed = "by later"
    /\ last.awb0 = Str("AWB2")
    /\ last.data = Str("AWB1")
    /\ awb = Str("AWB1")
    /\ inflight = <<>>

\* C8: getCounties returns the response body if and only if the status is
\* 200, and no data in every other case (null; undefined is let pass here).
C8_CountiesOnlyOn200 ==
    IsResp(last, "getCounties")
        => IF last.status = StatusOK
           THEN last.ret = last.data
           ELSE last.ret \in {Null, Undefined}

\* C9, as claimed: the token changes only in a step where a login succeeds,
\* the stored waybill identifier only in a step where a createAWB succeeds,
\* and a token once set is never absent again.
C9_TokenNeverAbsentAgain ==
    /\ token # last.token0 => LoginOk(last)
    /\ awb # last.awb0 => CreateOk(last)
    /\ ~Falsy(last.token0) => ~Falsy(token)

\* C9, amended: the token changes only in a step where a login succeeds,
\* and then to the body of that response; the stored waybill identifier
\* changes only in a step where a createAWB succeeds, and then to the body
\* of that response; a token once set becomes absent again only by a
\* successful login whose response body is empty.
C9_FrameOfTokenAndAwb ==
    /\ token # last.token0 => (LoginOk(last) /\ token = last.data)
    /\ awb # last.awb0 => (CreateOk(last) /\ awb = last.data)
    /\ (~Falsy(last.token0) /\ Falsy(token))
          => (LoginOk(last) /\ Falsy(last.data))

\* a login answered with status 200 and an empty body replaces the token
\* "tok1" by the empty string
C9_Witness ==
    /\ LoginOk(last)
    /\ last.data = Str("")
    /\ last.token0 = Str("tok1")
    /\ token = Str("")

\* C10: the file a printAWB call writes is named after the waybill
\* identifier that the call sent as barCodes.
C10_FileNamedAfterRequest ==
    (IsResp(last, "printAWB") /\ last.file # "")
        => last.file = last.bar \o ".pdf"

=============================================================================
